---- MODULE Spec2Model ----
(***************************************************************************)
(* The application lifecycle of modal's Stub (src/modal/stub.py): the      *)
(* entry points run, run_forever and deploy, the shared _run context       *)
(* manager they wrap, the remote control plane they talk to and the object *)
(* creation protocol of the application session; and the statements that   *)
(* declare the stub's blueprint: assignments, reads and the decorators.    *)
(*                                                                         *)
(* One caller drives one entry point at a time; `pc` is the position of    *)
(* that call.  The log-tailing task and the remote side take their own     *)
(* steps in between.  `calls` is the sequence of remote calls the current  *)
(* entry-point call has issued so far.                                     *)
(***************************************************************************)
EXTENDS Integers, Sequences, FiniteSets, TLC

\* ------------------------------------------------------------------ bounds
\* entry-point calls made one after the other on the stub
MaxCalls == 2
\* log entries the remote side produces, over all applications
MaxLogEntries == 2
\* statements of the module that declares the stub
MaxRegs == 3

\* ------------------------------------------------------------ value encoding
\* Python's None for an identifier; identifiers are numbers, "" is 0.
None == -1
\* the empty string of an identifier field (the protobuf default)
EmptyId == 0

\* Optional[str] for names: characters are kept, so that validation reads them.
NoName == [some |-> FALSE, chars |-> <<>>]
Name(s) == [some |-> TRUE, chars |-> s]

\* api_pb2.DEPLOYMENT_NAMESPACE_*
Namespaces == {"ACCOUNT", "GLOBAL"}

\* the characters an application name may contain, by class
AllowedChars == {"a", "0", "-", ".", "_"}
\* names are shorter than this
MaxAppNameLen == 64

\* is_valid_app_name(name): only allowed characters, at least one, and short
is_valid_app_name(name) ==
    /\ Len(name.chars) > 0
    /\ \A i \in 1..Len(name.chars) : name.chars[i] \in AllowedChars
    /\ Len(name.chars) < MaxAppNameLen

\* ---------------------------------------------------------------- the inputs
\* names a caller may pass to deploy()
NameArgs ==
    { NoName,
      Name(<<"a", "-", "0">>),
      Name(<<>>),
      Name(<<"a", "/">>),
      Name([i \in 1..(MaxAppNameLen - 1) |-> "a"]),
      Name([i \in 1..MaxAppNameLen |-> "a"]) }
\* names a Stub may be constructed with
StubNames == { NoName, Name(<<"a", "-", "0">>) }

\* tags of the blueprint: a secret and two functions
Tags == {"S", "fn_a", "fn_b"}
\* the objects a tag's object may reference: a secret references nothing, a
\* function may reference the secret and the other function
MayRef(t) == IF t = "S" THEN {} ELSE Tags \ {t}
Blueprints == { b \in [Tags -> SUBSET Tags] : \A t \in Tags : b[t] \subseteq MayRef(t) }
\* the blueprint of a function that calls a function that reads the secret
Chain == [t \in Tags |-> IF t = "fn_a" THEN {"fn_b"} ELSE IF t = "fn_b" THEN {"S"} ELSE {}]

\* --------------------------------------------------- objects of a blueprint
\* an object a caller constructs: its class, which construction made it, the
\* tag it carries (a function's tag, a reference's tag) and its mounts
Obj(kind, id, tag, mounts) == [kind |-> kind, id |-> id, tag |-> tag, mounts |-> mounts]
\* a mount or a reference to one: what it is, its key and which construction made it
Mount(kind, key, id) == [kind |-> kind, key |-> key, id |-> id]
\* `self._client_mount = None`
NoMount == Mount("None", 0, 0)
\* no statement of the declaring module has run
NoOp == [op |-> "none", tag |-> "", obj |-> Obj("None", 0, "", << >>)]

VARIABLES
    is_local,           \* is_local(): FALSE inside a container
    _name,              \* Stub._name
    _blueprint,         \* Stub._blueprint: tag -> the tags its object references;
                        \* while the stub is declared, tag -> the object bound to it
    _client_mount,      \* Stub._client_mount, or NoMount
    _function_mounts,   \* Stub._function_mounts: key -> mount
    warnings,           \* what logger.warning was called with
    nregs,              \* statements of the declaring module executed so far
    declared,           \* the functions the decorators returned, in order
    last_op,            \* the last statement of the declaring module
    nextAppId,          \* remote: the next application identifier to assign
    deployments,        \* remote: the deployment records
    logHead,            \* remote: per application, its last log entry id
    calls_left,         \* entry-point calls the caller has yet to make
    pc,                 \* position of the current entry-point call
    entry,              \* "run", "run_forever" or "deploy"
    name,               \* deploy's effective name
    namespace,          \* deploy's namespace
    client,             \* whether this call created a client
    timeout,            \* config["run_forever_timeout"]
    existing_app_id,    \* _run's argument
    last_log_entry_id,  \* _run's argument
    app_id,             \* app.app_id once the session is constructed, else None
    description,        \* the description a new application was created with
    obj,                \* per tag: "pending", "inflight", "created", "failed", "abandoned"
    logs_loop,          \* the log task: "none", "created", "running", "cancelled",
                        \* "stopped", "failed"
    logs_from,          \* the watermark the log task was started with
    watermark,          \* the last log entry the log task has seen
    exc,                \* the exception in flight in _run, or "none"
    interrupted,        \* where a KeyboardInterrupt was raised: "no", "creating", "body"
    notice,             \* the "Disconnecting from Modal" notice was printed
    yielded,            \* _run reached its yield: the caller's body was entered
    disconnects,        \* app.disconnect() calls of this session
    calls,              \* remote calls issued by this entry-point call
    outcome,            \* "none", "returned", "raised"
    raised,             \* the error the entry point raised, or "none"
    result,             \* deploy's return value, or None
    history             \* the deploys that returned an application identifier

stubVars == << is_local, _name, _blueprint, _client_mount, _function_mounts >>
regVars == << warnings, nregs, declared, last_op >>
remoteVars == << nextAppId, deployments, logHead >>
argVars == << calls_left, entry, name, namespace, client, timeout >>
lookupVars == << existing_app_id, last_log_entry_id >>
appVars == << app_id, description >>
logVars == << logs_loop, logs_from, watermark >>
excVars == << exc, notice >>
outVars == << outcome, raised >>

vars == << stubVars, regVars, remoteVars, argVars, pc, lookupVars, appVars, obj, logVars, excVars,
           interrupted, yielded, disconnects, calls, outVars, result, history >>

\* application identifiers the remote side can assign
Apps == 1..MaxCalls
\* values of config["run_forever_timeout"]: unset, or some seconds
RunForeverTimeouts == {0, 1}

\* ------------------------------------------------------------------ helpers
\* one remote call, as a record of what was sent
Call(op, a, n, ns, t) == [op |-> op, app |-> a, name |-> n, ns |-> ns, tag |-> t]

\* `app_resp.app_id or None` (stub.py:303)
or_none_never(x) == None
or_none(x) == IF x = EmptyId THEN None ELSE x

\* `last_log_entry_id or ""` (stub.py:164)
or_empty_always(x) == EmptyId
or_empty(x) == IF x = None \/ x = EmptyId THEN EmptyId ELSE x

\* Stub.description: the name, or the command line when the stub has no name
stub_description == IF _name.some THEN _name ELSE Name(<<"a", "r", "g", "v">>)

\* the stub is constructed and nothing has run; the caller will make n calls
InitWith(blueprints, n) ==
    /\ is_local \in BOOLEAN
    /\ _name \in StubNames
    /\ _blueprint \in blueprints
    /\ _client_mount = NoMount
    /\ _function_mounts = << >>
    /\ warnings = << >>
    /\ nregs = 0
    /\ declared = << >>
    /\ last_op = NoOp
    /\ nextAppId = 1
    /\ deployments = {}
    /\ logHead = [a \in Apps |-> EmptyId]
    /\ calls_left = n
    /\ pc = "idle"
    /\ entry = "none"
    /\ name = NoName
    /\ namespace = "ACCOUNT"
    /\ client = FALSE
    /\ timeout = 0
    /\ existing_app_id = None
    /\ last_log_entry_id = None
    /\ app_id = None
    /\ description = NoName
    /\ obj = [t \in Tags |-> "pending"]
    /\ logs_loop = "none"
    /\ logs_from = EmptyId
    /\ watermark = EmptyId
    /\ exc = "none"
    /\ interrupted = "no"
    /\ notice = FALSE
    /\ yielded = FALSE
    /\ disconnects = 0
    /\ calls = <<>>
    /\ outcome = "none"
    /\ raised = "none"
    /\ result = None
    /\ history = <<>>

\* one entry-point call on a stub with any blueprint
Init == InitWith(Blueprints, 1)

\* entry-point calls one after the other on the stub of a chain of references
InitRepeat == InitWith({Chain}, MaxCalls)

\* the caller may start an entry point
CanCall == pc \in {"idle", "done"} /\ calls_left > 0

\* the entry point starts: what it was called with, and no session yet
Enter_reusing(e, n, ns, t) ==
    /\ calls_left' = calls_left - 1
    /\ entry' = e
    /\ name' = n
    /\ namespace' = ns
    /\ timeout' = t
    /\ existing_app_id' = app_id
    /\ last_log_entry_id' = None
    /\ app_id' = app_id
    /\ description' = NoName
    /\ obj' = [x \in Tags |-> "pending"]
    /\ logs_loop' = "none"
    /\ logs_from' = EmptyId
    /\ watermark' = EmptyId
    /\ exc' = "none"
    /\ interrupted' = "no"
    /\ notice' = FALSE
    /\ yielded' = FALSE
    /\ disconnects' = 0
    /\ calls' = <<>>
    /\ result' = None
    /\ UNCHANGED << stubVars, regVars, remoteVars, history >>
Enter(e, n, ns, t) ==
    /\ calls_left' = calls_left - 1
    /\ entry' = e
    /\ name' = n
    /\ namespace' = ns
    /\ timeout' = t
    /\ existing_app_id' = None
    /\ last_log_entry_id' = None
    /\ app_id' = None
    /\ description' = NoName
    /\ obj' = [x \in Tags |-> "pending"]
    /\ logs_loop' = "none"
    /\ logs_from' = EmptyId
    /\ watermark' = EmptyId
    /\ exc' = "none"
    /\ interrupted' = "no"
    /\ notice' = FALSE
    /\ yielded' = FALSE
    /\ disconnects' = 0
    /\ calls' = <<>>
    /\ result' = None
    /\ UNCHANGED << stubVars, regVars, remoteVars, history >>

\* the entry point raises before it has a session
Raise(err) ==
    /\ pc' = "done"
    /\ outcome' = "raised"
    /\ raised' = err

\* the entry point goes on to its next await
Goto(p) ==
    /\ pc' = p
    /\ outcome' = "none"
    /\ raised' = "none"

\* ------------------------------------------------------------- entry points
\* the precondition of run and run_forever (stub.py:209, 229)
run_precondition == is_local

\* Stub.run, up to its `async with self._run(client, output_mgr, None)`
run ==
    /\ CanCall
    /\ Enter("run", NoName, "ACCOUNT", 0)
    /\ IF ~run_precondition
       THEN Raise("InvalidError") /\ client' = FALSE
       ELSE Goto("init") /\ client' = TRUE

\* Stub.run_forever, up to its `async with self._run(client, output_mgr, None)`
run_forever ==
    /\ CanCall
    /\ \E t \in RunForeverTimeouts : Enter("run_forever", NoName, "ACCOUNT", t)
    /\ IF ~run_precondition
       THEN Raise("InvalidError") /\ client' = FALSE
       ELSE Goto("init") /\ client' = TRUE

\* deploy's effective name: the argument, else the stub's name (stub.py:280)
effective_name(arg) == IF arg.some THEN arg ELSE _name

\* deploy's preconditions (stub.py:278-295)
deploy_precondition_unvalidated(arg) ==
    /\ is_local
    /\ effective_name(arg).some
deploy_precondition(arg) ==
    /\ is_local
    /\ effective_name(arg).some
    /\ is_valid_app_name(effective_name(arg))

\* Stub.deploy, up to the deployment lookup
deploy ==
    /\ CanCall
    /\ \E arg \in NameArgs, ns \in Namespaces :
         /\ Enter("deploy", effective_name(arg), ns, 0)
         /\ IF ~deploy_precondition(arg)
            THEN Raise("InvalidError") /\ client' = FALSE
            ELSE Goto("lookup") /\ client' = TRUE

\* ------------------------------------------------------- the control plane
\* the deployment record of (n, ns) exists
Deployment(n, ns) == { r \in deployments : r.name = n /\ r.namespace = ns }

\* the lookup's response: the record of (n, ns) and the last log entry of its
\* application, or the empty response
GetDeploymentByName(n, ns) ==
    IF Deployment(n, ns) # {}
    THEN LET r == CHOOSE r \in Deployment(n, ns) : TRUE
         IN  [app_id |-> r.app_id, last_log_entry_id |-> logHead[r.app_id]]
    ELSE [app_id |-> EmptyId, last_log_entry_id |-> EmptyId]

\* the records after FinalizeDeployment(a, n, ns): the binding of (n, ns) is replaced
FinalizeDeployment(a, n, ns) ==
    (deployments \ Deployment(n, ns)) \cup { [name |-> n, namespace |-> ns, app_id |-> a] }

\* the log entries of the applications 1..n
RECURSIVE LogEntries(_)
LogEntries(n) == IF n = 0 THEN 0 ELSE logHead[n] + LogEntries(n - 1)

\* the remote side appends a log entry to the application of the session,
\* which logs while its objects are built and while it runs
ServerEmitLog ==
    /\ pc \in {"creating", "created", "body"}
    /\ LogEntries(MaxCalls) < MaxLogEntries
    /\ logHead' = [logHead EXCEPT ![app_id] = @ + 1]
    /\ UNCHANGED << stubVars, regVars, nextAppId, deployments, argVars, pc, lookupVars, appVars,
                    obj, logVars, excVars, interrupted, yielded, disconnects, calls,
                    outVars, result, history >>

\* ------------------------------------------------------------------ deploy
\* deploy: "Look up any existing deployment" (stub.py:300-304)
deploy_lookup ==
    /\ pc = "lookup"
    /\ calls' = Append(calls, Call("AppGetByDeploymentName", None, name, namespace, ""))
    /\ \/ LET app_resp == GetDeploymentByName(name, namespace)
          IN  /\ existing_app_id' = or_none(app_resp.app_id)
              /\ last_log_entry_id' = app_resp.last_log_entry_id
              /\ Goto("init")
       \/ /\ Raise("RemoteCallError")
          /\ UNCHANGED lookupVars
    /\ UNCHANGED << stubVars, regVars, remoteVars, argVars, appVars, obj, logVars, excVars,
                    interrupted, yielded, disconnects, result, history >>

\* --------------------------------------------------------------------- _run
\* deploy passes deployment=True and description=name (stub.py:308-310)
deployment == entry = "deploy"

\* the description _run creates a new application with (stub.py:156)
new_description == IF deployment THEN name ELSE stub_description

\* _run: _App.init_existing or _App.init_new (stub.py:153-156); the remote
\* call may fail, and then no session exists
_run_init_swallowing ==
    /\ pc = "init"
    /\ IF existing_app_id # None
       THEN /\ calls' = Append(calls, Call("AppResume", existing_app_id, NoName, "", ""))
            /\ \/ /\ app_id' = existing_app_id
                  /\ Goto("start_logs")
               \/ /\ Goto("start_logs")
                  /\ UNCHANGED app_id
            /\ UNCHANGED << nextAppId, description >>
       ELSE /\ calls' = Append(calls, Call("AppCreate", None, new_description, "", ""))
            /\ \/ /\ app_id' = nextAppId
                  /\ nextAppId' = nextAppId + 1
                  /\ description' = new_description
                  /\ Goto("start_logs")
               \/ /\ Goto("start_logs")
                  /\ UNCHANGED << app_id, nextAppId, description >>
    /\ UNCHANGED << stubVars, regVars, deployments, logHead, argVars, lookupVars, obj, logVars,
                    excVars, interrupted, yielded, disconnects, result, history >>
_run_init ==
    /\ pc = "init"
    /\ IF existing_app_id # None
       THEN /\ calls' = Append(calls, Call("AppResume", existing_app_id, NoName, "", ""))
            /\ \/ /\ app_id' = existing_app_id
                  /\ Goto("start_logs")
               \/ /\ Raise("RemoteCallError")
                  /\ UNCHANGED app_id
            /\ UNCHANGED << nextAppId, description >>
       ELSE /\ calls' = Append(calls, Call("AppCreate", None, new_description, "", ""))
            /\ \/ /\ app_id' = nextAppId
                  /\ nextAppId' = nextAppId + 1
                  /\ description' = new_description
                  /\ Goto("start_logs")
               \/ /\ Raise("RemoteCallError")
                  /\ UNCHANGED << app_id, nextAppId, description >>
    /\ UNCHANGED << stubVars, regVars, deployments, logHead, argVars, lookupVars, obj, logVars,
                    excVars, interrupted, yielded, disconnects, result, history >>

\* _run: enter the TaskContext and create the log task (stub.py:159-166)
_run_start_logs_skipped ==
    /\ pc = "start_logs"
    /\ pc' = "create_check"
    /\ UNCHANGED << stubVars, regVars, remoteVars, argVars, lookupVars, appVars, obj, logVars,
                    excVars, interrupted, yielded, disconnects, calls, outVars, result,
                    history >>
_run_start_logs ==
    /\ pc = "start_logs"
    /\ logs_loop' = "created"
    /\ logs_from' = or_empty(last_log_entry_id)
    /\ watermark' = or_empty(last_log_entry_id)
    /\ pc' = "create_check"
    /\ UNCHANGED << stubVars, regVars, remoteVars, argVars, lookupVars, appVars, obj, excVars,
                    interrupted, yielded, disconnects, calls, outVars, result, history >>

\* ------------------------------------------------------------- the log task
\* get_logs_loop: the task's first step opens the log stream of the application
\* from its watermark (a remote call, the only one not recorded in `calls`)
get_logs_loop ==
    /\ logs_loop = "created"
    /\ logs_loop' = "running"
    /\ UNCHANGED << stubVars, regVars, remoteVars, argVars, pc, lookupVars, appVars, obj,
                    logs_from, watermark, excVars, interrupted, yielded, disconnects,
                    calls, outVars, result, history >>

\* get_logs_loop: the next entry after the watermark arrives
logs_entry ==
    /\ logs_loop = "running"
    /\ watermark < logHead[app_id]
    /\ watermark' = watermark + 1
    /\ UNCHANGED << stubVars, regVars, remoteVars, argVars, pc, lookupVars, appVars, obj,
                    logs_loop, logs_from, excVars, interrupted, yielded, disconnects,
                    calls, outVars, result, history >>

\* get_logs_loop ends with an error of its own; the error stays in the task
logs_fail ==
    /\ logs_loop \in {"created", "running"}
    /\ logs_loop' = "failed"
    /\ UNCHANGED << stubVars, regVars, remoteVars, argVars, pc, lookupVars, appVars, obj,
                    logs_from, watermark, excVars, interrupted, yielded, disconnects,
                    calls, outVars, result, history >>

\* logs_loop.cancel() on a task in state s
cancel_noop(s) == s
cancel(s) == IF s \in {"created", "running"} THEN "cancelled" ELSE s

\* ------------------------------------------------------- create_all_objects
\* the tags reachable from the tags of T by n reference steps or fewer
RECURSIVE Reach(_, _)
Reach(T, n) ==
    IF n = 0 THEN T ELSE Reach(T \cup UNION { _blueprint[t] : t \in T }, n - 1)

\* the blueprint has a reference cycle: some object reaches itself
HasCycle == \E t \in Tags : t \in Reach(_blueprint[t], Cardinality(Tags))

\* every object the object of tag t references has been created
DependenciesIgnored(t) == TRUE
DependenciesCreated(t) == \A d \in _blueprint[t] : obj[d] = "created"

\* the calls in flight when the creation phase is left are abandoned
Abandon(o) == [t \in Tags |-> IF o[t] = "inflight" THEN "abandoned" ELSE o[t]]

\* `except KeyboardInterrupt:` catches exception e (stub.py:186)
catches_all(e) == TRUE
catches(e) == e = "KeyboardInterrupt"

\* exception e is raised inside _run's try block: the except clause prints its
\* notice and swallows an interrupt, any other exception stays in flight, and
\* the finally clause is entered (stub.py:168-191)
Throw(e) ==
    /\ exc' = IF catches(e) THEN "none" ELSE e
    /\ notice' = (notice \/ catches(e))
    /\ pc' = "finally"

\* create_all_objects: the creation order is computed first; a cycle is an error
create_check ==
    /\ pc = "create_check"
    /\ IF HasCycle
       THEN Throw("ConfigurationError")
       ELSE pc' = "creating" /\ UNCHANGED excVars
    /\ UNCHANGED << stubVars, regVars, remoteVars, argVars, lookupVars, appVars, obj, logVars,
                    interrupted, yielded, disconnects, calls, outVars, result, history >>

\* create_all_objects: the creation call of tag t is issued
create_issue(t) ==
    /\ pc = "creating"
    /\ obj[t] = "pending"
    /\ DependenciesCreated(t)
    /\ obj' = [obj EXCEPT ![t] = "inflight"]
    /\ calls' = Append(calls, Call("CreateObject", app_id, NoName, "", t))
    /\ UNCHANGED << stubVars, regVars, remoteVars, argVars, pc, lookupVars, appVars, logVars,
                    excVars, interrupted, yielded, disconnects, outVars, result, history >>

\* create_all_objects: the creation call of tag t returns its identifier
create_complete(t) ==
    /\ pc = "creating"
    /\ obj[t] = "inflight"
    /\ obj' = [obj EXCEPT ![t] = "created"]
    /\ UNCHANGED << stubVars, regVars, remoteVars, argVars, pc, lookupVars, appVars, logVars,
                    excVars, interrupted, yielded, disconnects, calls, outVars, result,
                    history >>

\* create_all_objects: the creation call of tag t fails; the phase aborts
create_fail(t) ==
    /\ pc = "creating"
    /\ obj[t] = "inflight"
    /\ obj' = Abandon([obj EXCEPT ![t] = "failed"])
    /\ Throw("RemoteCallError")
    /\ UNCHANGED << stubVars, regVars, remoteVars, argVars, lookupVars, appVars, logVars,
                    interrupted, yielded, disconnects, calls, outVars, result, history >>

\* every object of the blueprint is created
AllCreated == \A t \in Tags : obj[t] = "created"

\* create_all_objects returns once every object is created
create_return ==
    /\ pc = "creating"
    /\ AllCreated
    /\ pc' = "created"
    /\ UNCHANGED << stubVars, regVars, remoteVars, argVars, lookupVars, appVars, obj, logVars,
                    excVars, interrupted, yielded, disconnects, calls, outVars, result,
                    history >>

\* ------------------------------------------------------- _run, after creation
\* _run: after `await app.create_all_objects(progress)`: a deployment cancels
\* the log task, and the application is yielded (stub.py:172-185)
_run_yield_unawaited ==
    /\ pc \in {"creating", "created"}
    /\ logs_loop' = IF deployment THEN cancel(logs_loop) ELSE logs_loop
    /\ yielded' = TRUE
    /\ pc' = "body"
    /\ UNCHANGED << stubVars, regVars, remoteVars, argVars, lookupVars, appVars, obj, logs_from,
                    watermark, excVars, interrupted, disconnects, calls, outVars,
                    result, history >>
_run_yield_rebinding ==
    /\ pc = "created"
    /\ logs_loop' = IF deployment THEN cancel(logs_loop) ELSE logs_loop
    /\ yielded' = TRUE
    /\ pc' = "body"
    /\ _blueprint' = [t \in Tags |-> {}]
    /\ UNCHANGED << is_local, _name, _client_mount, _function_mounts, regVars, remoteVars,
                    argVars, lookupVars, appVars, obj, logs_from, watermark, excVars,
                    interrupted, disconnects, calls, outVars, result, history >>
_run_yield ==
    /\ pc = "created"
    /\ logs_loop' = IF deployment THEN cancel(logs_loop) ELSE logs_loop
    /\ yielded' = TRUE
    /\ pc' = "body"
    /\ UNCHANGED << stubVars, regVars, remoteVars, argVars, lookupVars, appVars, obj, logs_from,
                    watermark, excVars, interrupted, disconnects, calls, outVars,
                    result, history >>

\* the body of `with stub.run():` ends: normally, or with an error of its own
run_body ==
    /\ pc = "body"
    /\ entry = "run"
    /\ \/ pc' = "finally" /\ UNCHANGED excVars
       \/ Throw("BodyError")
    /\ UNCHANGED << stubVars, regVars, remoteVars, argVars, lookupVars, appVars, obj, logVars,
                    interrupted, yielded, disconnects, calls, outVars, result, history >>

\* run_forever's body: with a timeout, `await asyncio.sleep(timeout)` returns;
\* without one the loop never ends by itself (stub.py:240-247)
run_forever_body_untimed ==
    /\ pc = "body"
    /\ entry = "run_forever"
    /\ pc' = "finally"
    /\ UNCHANGED << stubVars, regVars, remoteVars, argVars, lookupVars, appVars, obj, logVars,
                    excVars, interrupted, yielded, disconnects, calls, outVars, result,
                    history >>
run_forever_body ==
    /\ pc = "body"
    /\ entry = "run_forever"
    /\ timeout # 0
    /\ pc' = "finally"
    /\ UNCHANGED << stubVars, regVars, remoteVars, argVars, lookupVars, appVars, obj, logVars,
                    excVars, interrupted, yielded, disconnects, calls, outVars, result,
                    history >>

\* the AppDeployRequest of deploy (stub.py:311-315)
deploy_req_stub_name == Call("AppDeploy", app_id, _name, namespace, "")
deploy_req == Call("AppDeploy", app_id, name, namespace, "")

\* deploy's body: the AppDeploy call and `return app._app_id` (stub.py:311-317)
deploy_body_after_failure ==
    /\ pc \in {"body", "finally"}
    /\ \A i \in 1..Len(calls) : calls[i].op # "AppDeploy"
    /\ entry = "deploy"
    /\ calls' = Append(calls, deploy_req)
    /\ \/ /\ deployments' = FinalizeDeployment(deploy_req.app, deploy_req.name, deploy_req.ns)
          /\ result' = app_id
          /\ pc' = "finally"
          /\ UNCHANGED excVars
       \/ /\ Throw("RemoteCallError")
          /\ UNCHANGED << deployments, result >>
    /\ UNCHANGED << stubVars, regVars, nextAppId, logHead, argVars, lookupVars, appVars, obj,
                    logVars, interrupted, yielded, disconnects, outVars, history >>
deploy_body ==
    /\ pc = "body"
    /\ entry = "deploy"
    /\ calls' = Append(calls, deploy_req)
    /\ \/ /\ deployments' = FinalizeDeployment(deploy_req.app, deploy_req.name, deploy_req.ns)
          /\ result' = app_id
          /\ pc' = "finally"
          /\ UNCHANGED excVars
       \/ /\ Throw("RemoteCallError")
          /\ UNCHANGED << deployments, result >>
    /\ UNCHANGED << stubVars, regVars, nextAppId, logHead, argVars, lookupVars, appVars, obj,
                    logVars, interrupted, yielded, disconnects, outVars, history >>

\* a KeyboardInterrupt is raised at the await the session is suspended in:
\* inside create_all_objects, or at the yield while the body runs
KeyboardInterrupt ==
    /\ pc \in {"creating", "body"}
    /\ interrupted' = pc
    /\ obj' = Abandon(obj)
    /\ Throw("KeyboardInterrupt")
    /\ UNCHANGED << stubVars, regVars, remoteVars, argVars, lookupVars, appVars, logVars,
                    yielded, disconnects, calls, outVars, result, history >>

\* _run: `finally: await app.disconnect()` (stub.py:191-192)
_run_finally_unless_raised ==
    /\ pc = "finally"
    /\ calls' = IF exc = "none"
                THEN Append(calls, Call("AppClientDisconnect", app_id, NoName, "", ""))
                ELSE calls
    /\ disconnects' = IF exc = "none" THEN disconnects + 1 ELSE disconnects
    /\ pc' = "exit"
    /\ UNCHANGED << stubVars, regVars, remoteVars, argVars, lookupVars, appVars, obj, logVars,
                    excVars, interrupted, yielded, outVars, result, history >>
_run_finally_if_logs_ok ==
    /\ pc = "finally"
    /\ calls' = IF logs_loop # "failed"
                THEN Append(calls, Call("AppClientDisconnect", app_id, NoName, "", ""))
                ELSE calls
    /\ disconnects' = IF logs_loop # "failed" THEN disconnects + 1 ELSE disconnects
    /\ pc' = "exit"
    /\ UNCHANGED << stubVars, regVars, remoteVars, argVars, lookupVars, appVars, obj, logVars,
                    excVars, interrupted, yielded, outVars, result, history >>
_run_finally ==
    /\ pc = "finally"
    /\ calls' = Append(calls, Call("AppClientDisconnect", app_id, NoName, "", ""))
    /\ disconnects' = disconnects + 1
    /\ pc' = "exit"
    /\ UNCHANGED << stubVars, regVars, remoteVars, argVars, lookupVars, appVars, obj, logVars,
                    excVars, interrupted, yielded, outVars, result, history >>

\* what the entry point raises once _run's generator has ended: the exception
\* still in flight; else, when the generator ended without having yielded, the
\* context manager's "generator didn't yield" (stub.py:143, 219, 239, 308)
exit_error(e, y) ==
    IF e # "none" THEN e
    ELSE IF ~y THEN "RuntimeError"
    ELSE "none"

\* a deploy that returned an application identifier, for the record of deploys
Deployed ==
    [name |-> name, namespace |-> namespace, app_id |-> result,
     logs_from |-> logs_from, watermark |-> watermark]

\* the states the TaskContext may leave a task in state s in when it is left:
\* a task that has not ended is cancelled once the grace period is over, and
\* ends so or with an error
stop(s) == IF s = "failed" THEN {"failed"} ELSE {"stopped", "failed"}

\* _run: the TaskContext is left, which stops the log task, and the entry
\* point returns or raises (stub.py:193-197)
_run_exit ==
    /\ pc = "exit"
    /\ logs_loop' \in stop(logs_loop)
    /\ pc' = "done"
    /\ raised' = exit_error(exc, yielded)
    /\ outcome' = IF exit_error(exc, yielded) = "none" THEN "returned" ELSE "raised"
    /\ history' = IF exit_error(exc, yielded) = "none" /\ result # None
                  THEN Append(history, Deployed)
                  ELSE history
    /\ UNCHANGED << stubVars, regVars, remoteVars, argVars, lookupVars, appVars, obj, logs_from,
                    watermark, excVars, interrupted, yielded, disconnects, calls, result >>

Next ==
    \/ run
    \/ run_forever
    \/ deploy
    \/ deploy_lookup
    \/ _run_init
    \/ _run_start_logs
    \/ get_logs_loop
    \/ logs_entry
    \/ logs_fail
    \/ ServerEmitLog
    \/ create_check
    \/ \E t \in Tags : create_issue(t)
    \/ \E t \in Tags : create_complete(t)
    \/ \E t \in Tags : create_fail(t)
    \/ create_return
    \/ _run_yield
    \/ run_body
    \/ run_forever_body
    \/ deploy_body
    \/ KeyboardInterrupt
    \/ _run_finally
    \/ _run_exit

\* one entry-point call, any blueprint
Spec == Init /\ [][Next]_vars

\* repeated entry-point calls on one stub
SpecRepeat == InitRepeat /\ [][Next]_vars

\* what the event loop guarantees of a call that is under way: the sleep of
\* run_forever returns once its timeout has passed, the awaited disconnect
\* returns, and the TaskContext is left once its grace period is over
Fairness ==
    /\ WF_vars(run_forever_body)
    /\ WF_vars(_run_finally)
    /\ WF_vars(_run_exit)

\* one entry-point call on the stub of a chain of references, carried on
SpecFair == InitWith({Chain}, 1) /\ [][Next]_vars /\ Fairness

\* ------------------------------------------------- declaring the blueprint
\* The statements of the module that declares the stub: attribute and item
\* assignment, attribute and item reads, and the function decorators.  Each
\* runs to completion in the caller's thread.

\* the tags the declaring module uses; none is an annotated attribute of the
\* class, for which __setattr__ sets the attribute itself (stub.py:116-117)
RegTags == {"f", "g"}
\* the classes of the objects the module assigns
AssignedKinds == {"Secret", "Image"}
\* the decorators that declare a function
Decorators == {"function", "generator", "webhook", "asgi"}
\* the keys FunctionInfo.get_mounts() may return for a function
Keys == {1, 2}
\* the stub's `mounts` argument: one common mount
_mounts == << Mount("common", 0, 0) >>

\* everything but the stub's registry and the caller's own record
sessionVars == << is_local, _name, remoteVars, argVars, pc, lookupVars, appVars, obj, logVars,
                  excVars, interrupted, yielded, disconnects, calls, outVars, result, history >>

\* one statement is executed: what it was, on which tag, and the object it
\* was given or gave back
Statement(op, tag, o) ==
    /\ nregs < MaxRegs
    /\ nregs' = nregs + 1
    /\ last_op' = [op |-> op, tag |-> tag, obj |-> o]

\* `self._blueprint[tag] = obj`
Bind(b, tag, o) == [t \in DOMAIN b \cup {tag} |-> IF t = tag THEN o ELSE b[t]]

\* ref(None, tag): a reference to the object the session will create for tag
ref(tag) == Obj("Ref", 0, tag, << >>)

\* Stub.__getitem__ (stub.py:100-102)
__getitem__ ==
    \E tag \in RegTags :
        /\ Statement("__getitem__", tag, ref(tag))
        /\ UNCHANGED << stubVars, warnings, declared, sessionVars >>

\* Stub.__setitem__ (stub.py:104-106)
__setitem__ ==
    \E tag \in RegTags, kind \in AssignedKinds :
        LET o == Obj(kind, nregs + 1, "", << >>)
        IN  /\ Statement("__setitem__", tag, o)
            /\ _blueprint' = Bind(_blueprint, tag, o)
            /\ UNCHANGED << _client_mount, _function_mounts, warnings, declared, sessionVars >>

\* Stub.__getattr__ (stub.py:108-111)
__getattr___registering ==
    \E tag \in RegTags :
        /\ Statement("__getattr__", tag, ref(tag))
        /\ _blueprint' = IF tag \in DOMAIN _blueprint THEN _blueprint
                         ELSE Bind(_blueprint, tag, ref(tag))
        /\ UNCHANGED << _client_mount, _function_mounts, warnings, declared, sessionVars >>
__getattr__ ==
    \E tag \in RegTags :
        /\ Statement("__getattr__", tag, ref(tag))
        /\ UNCHANGED << stubVars, warnings, declared, sessionVars >>

\* Stub.__setattr__ of a tag that is not an annotated attribute (stub.py:113-119)
__setattr__ ==
    \E tag \in RegTags, kind \in AssignedKinds :
        LET o == Obj(kind, nregs + 1, "", << >>)
        IN  /\ Statement("__setattr__", tag, o)
            /\ _blueprint' = Bind(_blueprint, tag, o)
            /\ UNCHANGED << _client_mount, _function_mounts, warnings, declared, sessionVars >>

\* _get_function_mounts: the client mount, made on first use (stub.py:329-334);
\* n tells the mount made now from one made earlier
client_mount_remade(cur, sync, n) ==
    IF sync THEN Mount("client", 0, n) ELSE Mount("ref_global_client", 0, n)
client_mount(cur, sync, n) ==
    IF cur = NoMount
    THEN IF sync THEN Mount("client", 0, n) ELSE Mount("ref_global_client", 0, n)
    ELSE cur

\* FunctionInfo(raw_f).get_mounts(): a new mount per key of the function
get_mounts(keys, n) == [k \in keys |-> Mount("closure", k, n)]

\* _get_function_mounts: the memo after the function's mounts are looked up
\* (stub.py:339-342)
function_mounts_replaced(memo, keys, n) ==
    [k \in DOMAIN memo \cup keys |-> IF k \in keys THEN get_mounts(keys, n)[k] ELSE memo[k]]
function_mounts(memo, keys, n) ==
    [k \in DOMAIN memo \cup keys |-> IF k \in DOMAIN memo THEN memo[k] ELSE get_mounts(keys, n)[k]]

\* the keys of K in the order the mounts are appended
RECURSIVE InOrder(_)
InOrder(K) ==
    IF K = {} THEN << >>
    ELSE LET k == CHOOSE x \in K : \A y \in K : x <= y
         IN  << k >> \o InOrder(K \ {k})

\* _get_function_mounts(raw_f): common mounts, client mount, the function's mounts
_get_function_mounts(cm, fm, keys) ==
    _mounts \o << cm >> \o [i \in 1..Cardinality(keys) |-> fm[InOrder(keys)[i]]]

\* the diagnostic of _add_function for a tag bound to object old (stub.py:349-356)
Warning(tag, old) ==
    [tag |-> tag, step |-> nregs + 1,
     text |-> IF old.kind = "Function" THEN "collision" ELSE "overriden by function"]

\* Stub._add_function (stub.py:346-358)
_add_function_keeping(function) ==
    /\ warnings' = IF function.tag \in DOMAIN _blueprint
                   THEN Append(warnings, Warning(function.tag, _blueprint[function.tag]))
                   ELSE warnings
    /\ _blueprint' = IF function.tag \in DOMAIN _blueprint THEN _blueprint
                     ELSE Bind(_blueprint, function.tag, function)
_add_function(function) ==
    /\ warnings' = IF function.tag \in DOMAIN _blueprint
                   THEN Append(warnings, Warning(function.tag, _blueprint[function.tag]))
                   ELSE warnings
    /\ _blueprint' = Bind(_blueprint, function.tag, function)

\* Stub.function, generator, webhook and asgi (stub.py:360-533): the mounts
\* are resolved, the _Function is constructed and registered under its tag;
\* sync is config["sync_entrypoint"] at this declaration
function ==
    \E d \in Decorators, tag \in RegTags, keys \in SUBSET Keys, sync \in BOOLEAN :
        LET n == nregs + 1
            cm == client_mount(_client_mount, sync, n)
            fm == function_mounts(_function_mounts, keys, n)
            f == Obj("Function", n, tag, _get_function_mounts(cm, fm, keys))
        IN  /\ Statement(d, tag, f)
            /\ _client_mount' = cm
            /\ _function_mounts' = fm
            /\ _add_function(f)
            /\ declared' = Append(declared, [function |-> f, sync |-> sync, keys |-> keys])
            /\ UNCHANGED << is_local, _name, sessionVars >>

NextReg ==
    \/ __getitem__
    \/ __setitem__
    \/ __getattr__
    \/ __setattr__
    \/ function

\* a stub constructed with no object, on which no entry point is called
InitReg == InitWith({ << >> }, 0) /\ is_local /\ ~_name.some

\* the module that declares a stub
SpecReg == InitReg /\ [][NextReg]_vars

\* ------------------------------------------------------------------ claims
\* the remote calls of this entry-point call with operation op
CallsOf(op) == SelectSeq(calls, LAMBDA c : c.op = op)

\* the session of this call has been constructed
SessionConstructed == app_id # None

\* C1: a session that was constructed is disconnected exactly once by the end of
\* its call, on every exit path; disconnect is never issued twice, and never
\* without a session.
C1_DisconnectedExactlyOnce ==
    /\ disconnects <= 1
    /\ Len(CallsOf("AppClientDisconnect")) = disconnects
    /\ \A i \in 1..Len(calls) :
         calls[i].op = "AppClientDisconnect" => SessionConstructed /\ calls[i].app = app_id
    /\ (pc = "done" /\ SessionConstructed) => disconnects = 1
    /\ ~SessionConstructed => disconnects = 0

\* C1's case: a session ended by an error of the caller's body was disconnected
C1_Witness == pc = "done" /\ SessionConstructed /\ raised = "BodyError" /\ disconnects = 1

\* C2: an interrupt raised while objects are created or while the body runs is
\* caught inside the session: the entry point raises nothing, the notice is
\* printed, the session is disconnected once and no creation call stays in flight.
C2_InterruptIsCleanShutdown ==
    (pc = "done" /\ interrupted # "no") =>
        /\ outcome = "returned"
        /\ notice
        /\ disconnects = 1
        /\ \A t \in Tags : obj[t] # "inflight"

\* create_all_objects raised an error: a cycle, or a failed creation call
CreationFailed == exc = "ConfigurationError" \/ \E t \in Tags : obj[t] = "failed"

\* C3: when object creation fails the creation phase stops issuing calls, the
\* body is never entered, and the call ends with the session disconnected and
\* the error of the creation raised to the caller, the disconnect being the last
\* remote call.
C3_CreationFailureAborts ==
    CreationFailed =>
        /\ ~yielded
        /\ pc \in {"finally", "exit", "done"}
        /\ \A t \in Tags : obj[t] # "inflight"
        /\ pc = "done" =>
             /\ disconnects = 1
             /\ calls[Len(calls)].op = "AppClientDisconnect"
             /\ outcome = "raised"
             /\ raised = IF \E t \in Tags : obj[t] = "failed"
                         THEN "RemoteCallError" ELSE "ConfigurationError"

\* C3's case: a creation call failed while another was in flight, and the call ended
C3_Witness ==
    /\ pc = "done"
    /\ \E t \in Tags : obj[t] = "failed"
    /\ \E t \in Tags : obj[t] = "abandoned"
    /\ raised = "RemoteCallError"

\* C4: the caller's body runs only when every object of the blueprint has been
\* created.
C4_RunningOnlyAfterAllCreated == (pc = "body" \/ yielded) => AllCreated

\* C4's case: the body of run() is executing
C4_Witness == pc = "body" /\ entry = "run" /\ AllCreated

\* the position of the creation call of tag t in `calls`, 0 when not issued
IssuedAt(t) ==
    IF \E i \in 1..Len(calls) : calls[i].op = "CreateObject" /\ calls[i].tag = t
    THEN CHOOSE i \in 1..Len(calls) : calls[i].op = "CreateObject" /\ calls[i].tag = t
    ELSE 0

\* C5: in a blueprint without a cycle, when the creation call of A has been
\* issued, every B that A references is already created, and B's call was issued
\* before A's.
C5_TopologicalOrder ==
    ~HasCycle =>
        \A a \in Tags : IssuedAt(a) # 0 =>
            \A b \in _blueprint[a] :
                /\ obj[b] = "created"
                /\ IssuedAt(b) # 0
                /\ IssuedAt(b) < IssuedAt(a)

\* C5's case: the head of a chain of references was created
C5_Witness ==
    /\ _blueprint["fn_a"] = {"fn_b"}
    /\ _blueprint["fn_b"] = {"S"}
    /\ obj["fn_a"] = "created"

\* C6: a blueprint with a reference cycle fails with the configuration error
\* before any remote call: no call has been issued and no log stream started
\* when the error is raised.
C6_CycleFailsBeforeAnyRemoteCall ==
    raised = "ConfigurationError" => (calls = <<>> /\ logs_loop = "none")

\* a name is given and matches the naming pattern: one to 63 allowed characters
MatchesNamingPattern(n) ==
    /\ n.some
    /\ Len(n.chars) \in 1..63
    /\ \A i \in 1..Len(n.chars) : n.chars[i] \in {"a", "0", "-", ".", "_"}

\* the call has done nothing yet: no client, no remote call, no session, no object
NothingDone ==
    /\ ~client
    /\ calls = <<>>
    /\ ~SessionConstructed
    /\ logs_loop = "none"
    /\ \A t \in Tags : obj[t] = "pending"

\* C7: deploy with a missing or ill-formed effective name, and any entry point
\* called inside a container, raise InvalidError having created no client, issued
\* no lookup, initialized no application and created no object.
C7_PreconditionsBeforeRemoteCalls ==
    /\ (pc # "idle" /\ (~is_local \/ (entry = "deploy" /\ ~MatchesNamingPattern(name))))
         => (pc = "done" /\ raised = "InvalidError")
    /\ raised = "InvalidError" => NothingDone

\* C7's case: deploy was called with a name of 64 characters outside a container
C7_Witness ==
    /\ pc = "done"
    /\ entry = "deploy"
    /\ is_local
    /\ Len(name.chars) = 64
    /\ raised = "InvalidError"

\* the deploy is between its lookup and its AppDeploy call
DeployInSession ==
    deployment /\ pc \in {"init", "start_logs", "create_check", "creating", "created", "body"}

\* the record the lookup of this deploy found
FoundRecord == CHOOSE r \in Deployment(name, namespace) : TRUE

\* C8: deploy looks the record of (name, namespace) up first.  When one is found
\* the session resumes its application, creates none, and the log stream starts
\* from the record's last log entry; when none is found a new application is
\* created with the name as its description and the log stream starts from the
\* empty watermark.  deploy returns the application identifier of its session.
C8_DeployResumesOrCreates ==
    /\ DeployInSession =>
         /\ calls[1] = Call("AppGetByDeploymentName", None, name, namespace, "")
         /\ IF Deployment(name, namespace) # {}
            THEN /\ existing_app_id = FoundRecord.app_id
                 /\ pc = "init" => last_log_entry_id = logHead[FoundRecord.app_id]
                 /\ SessionConstructed =>
                      /\ app_id = FoundRecord.app_id
                      /\ CallsOf("AppCreate") = <<>>
                      /\ calls[2] = Call("AppResume", FoundRecord.app_id, NoName, "", "")
                 /\ logs_loop # "none" => logs_from = last_log_entry_id
            ELSE /\ existing_app_id = None
                 /\ last_log_entry_id = EmptyId
                 /\ SessionConstructed =>
                      /\ app_id = nextAppId - 1
                      /\ description = name
                      /\ calls[2] = Call("AppCreate", None, name, "", "")
                 /\ logs_loop # "none" => logs_from = EmptyId
    /\ (pc = "done" /\ deployment /\ outcome = "returned" /\ result # None)
         => (SessionConstructed /\ result = app_id)

\* C8's case: a deploy found a record and its log stream resumed from a
\* watermark that is not empty
C8_Witness ==
    /\ DeployInSession
    /\ Deployment(name, namespace) # {}
    /\ logs_loop = "running"
    /\ logs_from > EmptyId
    /\ app_id = FoundRecord.app_id

\* a deploy has returned an application identifier
SuccessfulDeploy == pc = "done" /\ deployment /\ outcome = "returned" /\ result # None

\* C9: a successful deploy has issued, in this order: the lookup of (name,
\* namespace), the resume or creation of the application, one creation call per
\* object, AppDeploy for (app_id, name, namespace) and the disconnect.  AppDeploy
\* is never issued twice, never after the disconnect, and only by deploy.
C9_DeployOrder ==
    /\ SuccessfulDeploy =>
         LET n == Cardinality(Tags)
         IN  /\ Len(calls) = n + 4
             /\ calls[1] = Call("AppGetByDeploymentName", None, name, namespace, "")
             /\ calls[2].op \in {"AppResume", "AppCreate"}
             /\ \A i \in 3..(n + 2) : calls[i].op = "CreateObject" /\ calls[i].app = app_id
             /\ { calls[i].tag : i \in 3..(n + 2) } = Tags
             /\ calls[n + 3] = Call("AppDeploy", app_id, name, namespace, "")
             /\ calls[n + 4] = Call("AppClientDisconnect", app_id, NoName, "", "")
    /\ Len(CallsOf("AppDeploy")) <= 1
    /\ \A i, j \in 1..Len(calls) :
         (calls[i].op = "AppDeploy" /\ calls[j].op = "AppClientDisconnect") => i < j
    /\ ~deployment => CallsOf("AppDeploy") = <<>>

\* C9's case: a deploy under a name given as an argument resumed an application
\* and returned
C9_Witness ==
    /\ SuccessfulDeploy
    /\ name # _name
    /\ calls[2].op = "AppResume"

\* deploys i and j of the history bound the same (name, namespace)
SameDeployment(i, j) ==
    /\ history[i].name = history[j].name
    /\ history[i].namespace = history[j].namespace

\* C10: of two deploys of the same name, the later one resumes the application of
\* the earlier one and starts its log stream at or after the watermark the
\* earlier one ended with; one deployment record exists for the name.
C10_RepeatedDeployConverges ==
    /\ \A i, j \in 1..Len(history) : (i < j /\ SameDeployment(i, j)) =>
         /\ history[j].app_id = history[i].app_id
         /\ history[j].logs_from >= history[i].watermark
    /\ \A i \in 1..Len(history) :
         Cardinality(Deployment(history[i].name, history[i].namespace)) = 1

\* C10's case: the same name was deployed twice, and the first deploy had seen
\* log entries
C10_Witness ==
    /\ Len(history) = 2
    /\ SameDeployment(1, 2)
    /\ history[1].watermark > EmptyId
    /\ history[2].logs_from > history[1].watermark

\* C11: a deployment's log task is cancelled right after object creation, before
\* the application is yielded and so before AppDeploy; it is not cancelled
\* while objects are created, and the log task of a run that is not a
\* deployment is not cancelled there and goes on while the body runs.
C11_LogsCancelledOnlyForDeployment ==
    /\ pc \in {"creating", "created"} => logs_loop \notin {"cancelled", "stopped"}
    /\ (deployment /\ yielded) => logs_loop \notin {"created", "running"}
    /\ \A i \in 1..Len(calls) : calls[i].op = "AppDeploy" => deployment /\ yielded
    /\ (~deployment /\ pc = "body") => logs_loop \notin {"cancelled", "stopped"}

\* C11's case: a deployment is about to issue AppDeploy, its log task cancelled
\* with an entry of the application left unread
C11_Witness ==
    /\ deployment
    /\ pc = "body"
    /\ logs_loop = "cancelled"
    /\ watermark < logHead[app_id]

\* --------------------------------------------------- claims on declaration
\* the step executes a statement
Executes == nregs' = nregs + 1
\* the step declares a function through one of the decorators
Declares == Executes /\ last_op'.op \in Decorators

\* C12: declaring a function under a tag that is bound to another function is
\* no error: the tag is bound to the new function, the set of tags stays as it
\* was and exactly one collision diagnostic is logged; declaring a function
\* under a tag that is not bound logs nothing.
C12_FunctionCollisionOverwrites ==
    [][Declares =>
        LET tag == last_op'.tag
        IN  /\ declared' = Append(declared, declared'[Len(declared')])
            /\ declared'[Len(declared')].function = last_op'.obj
            /\ _blueprint'[tag] = last_op'.obj
            /\ (tag \in DOMAIN _blueprint /\ _blueprint[tag].kind = "Function") =>
                 /\ _blueprint'[tag] # _blueprint[tag]
                 /\ DOMAIN _blueprint' = DOMAIN _blueprint
                 /\ Len(warnings') = Len(warnings) + 1
                 /\ SubSeq(warnings', 1, Len(warnings)) = warnings
                 /\ warnings'[Len(warnings')].tag = tag
                 /\ warnings'[Len(warnings')].text = "collision"
            /\ tag \notin DOMAIN _blueprint => warnings' = warnings
    ]_vars

\* C12's case: the second function declared under a tag replaced the first,
\* with one collision logged
C12_Witness ==
    /\ Len(declared) = 2
    /\ declared[1].function.tag = declared[2].function.tag
    /\ last_op.op \in Decorators
    /\ _blueprint[last_op.tag] = declared[2].function
    /\ Cardinality(DOMAIN _blueprint) = 1
    /\ Len(warnings) = 1
    /\ warnings[1].text = "collision"

\* the step binds a tag: a function declaration, an attribute or an item assignment
Registers == Executes /\ last_op'.op \in Decorators \cup {"__setattr__", "__setitem__"}

\* C13: binding a tag that is bound to an object of another kind logs a
\* diagnostic for that tag and then overwrites the binding, whichever way the
\* tag is bound: by a function declaration, an attribute assignment or an
\* item assignment.
C13_CrossKindOverwriteLogs ==
    [][Registers =>
        LET tag == last_op'.tag
        IN  (tag \in DOMAIN _blueprint /\ _blueprint[tag].kind # last_op'.obj.kind) =>
                 /\ Len(warnings') = Len(warnings) + 1
                 /\ warnings'[Len(warnings')].tag = tag
                 /\ _blueprint'[tag] = last_op'.obj
    ]_vars

\* the mounts of the i-th declared function
MountsOf(i) == declared[i].function.mounts
\* the client mounts among the mounts of the i-th declared function
ClientMountsOf(i) ==
    { j \in 1..Len(MountsOf(i)) : MountsOf(i)[j].kind \in {"client", "ref_global_client"} }

\* C14: the client mount is made at most once, by the first function
\* declaration: a synced mount when sync_entrypoint is set at that
\* declaration, else a reference to the global client mount.  Every declared
\* function has that one value, once, among its mounts, whatever the flag was
\* at its own declaration, and the value never changes.
C14_ClientMountCreatedOnce ==
    /\ declared = << >> => _client_mount = NoMount
    /\ declared # << >> =>
         /\ _client_mount.kind = IF declared[1].sync THEN "client" ELSE "ref_global_client"
         /\ _client_mount.id = declared[1].function.id
         /\ \A i \in 1..Len(declared) :
              /\ Cardinality(ClientMountsOf(i)) = 1
              /\ \A j \in ClientMountsOf(i) : MountsOf(i)[j] = _client_mount

\* C14's case: two functions declared, the flag set at the first declaration
\* and cleared at the second
C14_Witness ==
    /\ Len(declared) = 2
    /\ declared[1].sync
    /\ ~declared[2].sync
    /\ _client_mount.kind = "client"

\* the keys the declared functions had
KeysSeen == UNION { declared[i].keys : i \in 1..Len(declared) }
\* the mounts of closures among the mounts of the declared functions
ClosureMounts ==
    UNION { { MountsOf(i)[j] : j \in { x \in 1..Len(MountsOf(i)) : MountsOf(i)[x].kind = "closure" } } :
            i \in 1..Len(declared) }
\* the first declared function that has key k
FirstWith(k) ==
    CHOOSE i \in 1..Len(declared) :
        /\ k \in declared[i].keys
        /\ \A j \in 1..Len(declared) : k \in declared[j].keys => i <= j

\* C15: the mounts of closures are memoized by key: the declared functions
\* have as many distinct closure mounts as they have distinct keys, and every
\* function with a key has, for it, the mount made for the first function
\* that had the key.
C15_ClosureMountsMemoized ==
    /\ DOMAIN _function_mounts = KeysSeen
    /\ Cardinality(ClosureMounts) = Cardinality(KeysSeen)
    /\ \A i \in 1..Len(declared) :
         /\ Len(MountsOf(i)) = Len(_mounts) + 1 + Cardinality(declared[i].keys)
         /\ \A k \in declared[i].keys :
              /\ \E j \in 1..Len(MountsOf(i)) : MountsOf(i)[j] = _function_mounts[k]
              /\ _function_mounts[k] = Mount("closure", k, declared[FirstWith(k)].function.id)

\* C15's case: two functions share a key and the second has a key of its own
C15_Witness ==
    /\ Len(declared) = 2
    /\ declared[1].keys = {1}
    /\ declared[2].keys = {1, 2}
    /\ Cardinality(ClosureMounts) = 2

\* C16: a statement of the declaring module is local: it issues no remote
\* call and makes no session, and it changes nothing of the stub but the
\* binding of its own tag and, for a function declaration, the mount memo; a
\* read of stub.tag or stub[tag] gives a reference to the tag and changes
\* nothing, whether the tag is bound or not.
C16_RegistrationIsLocal ==
    [][Executes =>
        LET tag == last_op'.tag
        IN  /\ UNCHANGED sessionVars
            /\ \A t \in RegTags \ {tag} :
                 /\ t \in DOMAIN _blueprint' <=> t \in DOMAIN _blueprint
                 /\ t \in DOMAIN _blueprint => _blueprint'[t] = _blueprint[t]
            /\ last_op'.op \notin Decorators => UNCHANGED << _client_mount, _function_mounts >>
            /\ last_op'.op \in {"__getattr__", "__getitem__"} =>
                 /\ UNCHANGED << stubVars, warnings, declared >>
                 /\ last_op'.obj.kind = "Ref"
                 /\ last_op'.obj.tag = tag
    ]_vars

\* C16's case: a tag that is not bound was read from a stub that has a
\* function, and no remote call or session exists
C16_Witness ==
    /\ last_op.op = "__getattr__"
    /\ last_op.tag \notin DOMAIN _blueprint
    /\ Len(declared) = 1
    /\ calls = << >>
    /\ app_id = None

\* ------------------------------------------------- claims on the session
\* the call is a run_forever whose session reached the caller's body
RunForeverRunning == entry = "run_forever" /\ yielded

\* C17: with no timeout run_forever leaves its body only by an interrupt; with
\* a timeout it leaves its body; and once the body is left, by the timeout or
\* by an interrupt, the session is disconnected and run_forever returns.
C17_RunForeverEnds ==
    /\ []((RunForeverRunning /\ timeout = 0 /\ pc # "body") => interrupted = "body")
    /\ (RunForeverRunning /\ timeout # 0 /\ pc = "body") ~> (pc # "body")
    /\ (RunForeverRunning /\ pc = "finally") ~>
           (pc = "done" /\ disconnects = 1 /\ outcome = "returned")

\* C17's case: a run_forever with a timeout returned without an interrupt
C17_Witness ==
    /\ RunForeverRunning
    /\ timeout # 0
    /\ interrupted = "no"
    /\ pc = "done"
    /\ outcome = "returned"
    /\ disconnects = 1

\* the states of a session, in order
SessionStates ==
    << "UNINITIALIZED", "INITIALIZING", "CREATING_OBJECTS", "RUNNING", "DISCONNECTING",
       "DISCONNECTED" >>
Rank(st) == CHOOSE i \in 1..Len(SessionStates) : SessionStates[i] = st

\* this call has issued the call that initializes its session
InitIssued == \E i \in 1..Len(calls) : calls[i].op \in {"AppCreate", "AppResume"}

\* the furthest state the session of the current call has reached
SessionState ==
    CASE pc \in {"idle", "lookup"} -> "UNINITIALIZED"
      [] pc = "init" -> "INITIALIZING"
      [] pc \in {"start_logs", "create_check", "creating", "created"} -> "CREATING_OBJECTS"
      [] pc = "body" -> "RUNNING"
      [] pc \in {"finally", "exit"} -> "DISCONNECTING"
      [] pc = "done" -> IF SessionConstructed THEN "DISCONNECTED"
                        ELSE IF InitIssued THEN "INITIALIZING"
                        ELSE "UNINITIALIZED"

\* the step starts an entry-point call
NewCall == calls_left' = calls_left - 1

\* C18: within a call the session's state stays or moves to the next state
\* of UNINITIALIZED, INITIALIZING, CREATING_OBJECTS, RUNNING, DISCONNECTING,
\* DISCONNECTED, RUNNING being skipped when creation ends in an error or an
\* interrupt; DISCONNECTED is left only by the next call, which starts with no
\* session and initializes one of its own.
C18_SessionMovesForward ==
    /\ [][IF NewCall
          THEN /\ SessionState \in {"UNINITIALIZED", "INITIALIZING", "DISCONNECTED"}
               /\ SessionState' \in {"UNINITIALIZED", "INITIALIZING"}
               /\ app_id' = None
               /\ disconnects' = 0
               /\ logs_loop' = "none"
               /\ calls' = << >>
          ELSE \/ Rank(SessionState') = Rank(SessionState)
               \/ Rank(SessionState') = Rank(SessionState) + 1
               \/ SessionState = "CREATING_OBJECTS" /\ SessionState' = "DISCONNECTING"
         ]_vars
    /\ [](SessionConstructed => InitIssued)

\* C18's case: after a deploy that returned, a second call runs in a session
\* of its own on the application of the first
C18_Witness ==
    /\ Len(history) = 1
    /\ SessionState = "RUNNING"
    /\ app_id = history[1].app_id
    /\ disconnects = 0
    /\ calls[2].op = "AppResume"

\* the log task has been started and has not ended
LogsAlive == logs_loop \in {"created", "running", "cancelled"}

\* C19: the log task exists only inside a session: it is started once the
\* application is initialized and before any object creation is issued, on
\* the application of the session and from the watermark _run was given (the
\* empty one when it was given none); it reads entries while objects are
\* created; and it has ended when the entry point returns or raises.
C19_LogTaskWithinSession ==
    /\ pc \in {"idle", "lookup", "init", "start_logs"} => logs_loop = "none"
    /\ logs_loop # "none" =>
         /\ SessionConstructed
         /\ logs_from = IF last_log_entry_id = None THEN EmptyId ELSE last_log_entry_id
         /\ logs_from <= watermark
         /\ watermark <= logHead[app_id]
    /\ (\E t \in Tags : obj[t] # "pending") => logs_loop # "none"
    /\ pc = "done" => ~LogsAlive

\* C19's case: the log task of a session that resumed an application started
\* from the watermark given and read an entry while a creation call was in flight
C19_Witness ==
    /\ pc = "creating"
    /\ \E t \in Tags : obj[t] = "inflight"
    /\ logs_loop = "running"
    /\ last_log_entry_id > EmptyId
    /\ logs_from = last_log_entry_id
    /\ watermark > logs_from

\* C20: leaving the session stops the log task, which runs on until then, and
\* neither a log task that ended with an error nor one whose cancellation
\* fails keeps the disconnect from being issued: the disconnect never waits
\* for the log task, and every session that ends was disconnected once.
C20_DisconnectDespiteLogFailure ==
    /\ pc = "finally" => ENABLED _run_finally
    /\ pc = "exit" => ENABLED _run_exit
    /\ logs_loop = "stopped" => pc = "done"
    /\ (SessionConstructed /\ pc \in {"exit", "done"}) =>
         /\ disconnects = 1
         /\ calls[Len(calls)].op = "AppClientDisconnect"
    /\ (SessionConstructed /\ pc = "done") => logs_loop \in {"stopped", "failed"}

\* C20's case: the log task ended with an error, the call was then interrupted
\* in its body, and the session was disconnected
C20_Witness ==
    /\ logs_loop = "failed"
    /\ interrupted = "body"
    /\ pc = "exit"
    /\ disconnects = 1

\* the tags this call has issued a creation call for
TagsIssued == { calls[i].tag : i \in { j \in 1..Len(calls) : calls[j].op = "CreateObject" } }

\* C21: no step of an entry-point call (initialization, object creation, log
\* tailing, disconnect) adds, removes or rebinds an entry of the blueprint;
\* the objects the session creates are those of the blueprint, each once, and
\* all of them once the body is entered.
C21_BlueprintReadOnlyInSession ==
    /\ [][_blueprint' = _blueprint]_vars
    /\ [](/\ TagsIssued \subseteq DOMAIN _blueprint
          /\ Cardinality(TagsIssued) = Len(CallsOf("CreateObject"))
          /\ yielded => TagsIssued = DOMAIN _blueprint)

\* C21's case: a session on the chain of references created its objects, ran
\* and was disconnected, the blueprint being the chain still
C21_Witness ==
    /\ pc = "done"
    /\ yielded
    /\ disconnects = 1
    /\ _blueprint = Chain
    /\ TagsIssued = Tags

\* object creation of this call ended without every object created: by a
\* failed creation call, a cycle, or an interrupt inside create_all_objects
CreationAborted == CreationFailed \/ interrupted = "creating"

\* C22: AppDeploy is issued only by a deploy whose session created every
\* object of the blueprint, and the deployment records change only with that
\* call; a deploy whose object creation failed or was interrupted issues no
\* AppDeploy, returns no application identifier and raises.
C22_DeployOnlyAfterAllCreated ==
    /\ [][deployments' # deployments =>
            /\ deployment
            /\ pc = "body"
            /\ AllCreated
            /\ CallsOf("AppDeploy") = << >>
            /\ calls' = Append(calls, deploy_req)
         ]_vars
    /\ [](/\ CallsOf("AppDeploy") # << >> => deployment /\ yielded /\ AllCreated
          /\ CreationAborted =>
               /\ CallsOf("AppDeploy") = << >>
               /\ result = None
               /\ pc = "done" => outcome = "raised")

\* C22's case: after a deploy that returned, a deploy of another name was
\* interrupted while its objects were created; it raised and the name has no record
C22_Witness ==
    /\ Len(history) = 1
    /\ deployment
    /\ pc = "done"
    /\ interrupted = "creating"
    /\ outcome = "raised"
    /\ Deployment(name, namespace) = {}
    /\ Cardinality(deployments) = 1

\* the call that initializes the session of this call was issued and raised
InitFailed == InitIssued /\ ~SessionConstructed

\* C23: when the resume or create call of the application raises, the entry
\* point raises that error and has done nothing else: no log task, no
\* creation call, no disconnect, no AppDeploy, no body and no return value.
C23_InitFailureEndsCall ==
    InitFailed =>
        /\ pc = "done"
        /\ outcome = "raised"
        /\ raised = "RemoteCallError"
        /\ calls[Len(calls)].op \in {"AppCreate", "AppResume"}
        /\ CallsOf("CreateObject") = << >>
        /\ CallsOf("AppClientDisconnect") = << >>
        /\ CallsOf("AppDeploy") = << >>
        /\ logs_loop = "none"
        /\ \A t \in Tags : obj[t] = "pending"
        /\ disconnects = 0
        /\ ~yielded
        /\ result = None

\* C23's case: a deploy found the record of an earlier deploy and the resume
\* of its application raised
C23_Witness ==
    /\ InitFailed
    /\ deployment
    /\ Len(history) = 1
    /\ calls[Len(calls)].op = "AppResume"
    /\ raised = "RemoteCallError"
    /\ Cardinality(deployments) = 1
====
